---- MODULE Spec2Model ----
(***************************************************************************)
(* Model of converter/scapolite2ansible.py: the metadata extractor         *)
(* (load_yaml_metadata), the merge step (merge_rule_data), the rule to     *)
(* play mapper (convert_rule_to_ansible) and the batch driver              *)
(* (convert_directory).                                                    *)
(*                                                                         *)
(* Python values are tagged records; the tag k is the runtime type:        *)
(*   none, bool, int, str, list, dict.                                     *)
(* A dict is its sequence of entries [key, val] in insertion order, which  *)
(* is the iteration order of a Python dict.                                *)
(* A text is a sequence of symbols.  "-" is the dash character, "x" is an  *)
(* ordinary character, and every other symbol stands for a block of        *)
(* complete YAML lines (see Denote).                                       *)
(***************************************************************************)
EXTENDS Integers, Sequences, FiniteSets, TLC

VARIABLES
    files,      \* driver: the directory listing, a sequence of files
    idx,        \* driver: index of the next file of the listing
    plays,      \* driver: the collected plays
    pc,         \* driver: "start", "loop", "write", "done", "raised"
    data,       \* driver: what load_yaml_metadata returned for the last file
    converted,  \* driver: arguments convert_rule_to_ansible was called with
    log,        \* driver: the logging records, oldest first
    output,     \* driver: what was dumped to the output file
    text,       \* extractor alone: the document text
    segment,    \* extractor alone: the segment handed to yaml.safe_load
    loaded,     \* extractor alone: outcome of load_yaml_metadata
    meta,       \* mapper alone: the metadata mapping given
    result      \* mapper alone: outcome of convert_rule_to_ansible

vars == <<files, idx, plays, pc, data, converted, log, output,
          text, segment, loaded, meta, result>>

----------------------------------------------------------------------------
(* Python values *)

VNone == [k |-> "none"]
VBool(b) == [k |-> "bool", b |-> b]
VInt(n) == [k |-> "int", i |-> n]
VStr(s) == [k |-> "str", s |-> s]
VList(items) == [k |-> "list", items |-> items]
VDict(entries) == [k |-> "dict", entries |-> entries]
Entry(key, val) == [key |-> key, val |-> val]

\* bool(v): the truth value Python's "if not v" tests
Truthy(v) ==
    CASE v.k = "none" -> FALSE
      [] v.k = "bool" -> v.b
      [] v.k = "int"  -> v.i # 0
      [] v.k = "str"  -> v.s # ""
      [] v.k = "list" -> v.items # <<>>
      [] v.k = "dict" -> v.entries # <<>>

\* isinstance(v, int): bool is a subclass of int
IsInstanceInt(v) == v.k \in {"int", "bool"}

\* str(v), the default string form an f-string interpolates
PyStr(v) ==
    CASE v.k = "none" -> "None"
      [] v.k = "bool" -> IF v.b THEN "True" ELSE "False"
      [] v.k = "int"  -> IF v.i < 0 THEN "-" \o ToString(0 - v.i) ELSE ToString(v.i)
      [] v.k = "str"  -> v.s
      [] v.k = "list" -> IF v.items = <<>> THEN "[]" ELSE "[...]"
      [] v.k = "dict" -> IF v.entries = <<>> THEN "{}" ELSE "{...}"

\* key in d, for a dict d
HasKey(d, key) == \E n \in 1..Len(d.entries) : d.entries[n].key = key

\* d[key], for a dict d that has the key
Lookup(d, key) ==
    d.entries[CHOOSE n \in 1..Len(d.entries) : d.entries[n].key = key].val

\* d.get(key, default), for a dict d
DictGet(d, key, default) == IF HasKey(d, key) THEN Lookup(d, key) ELSE default

\* d[key] = val, for a dict d: an existing key keeps its place
DictSet(d, key, val) ==
    IF HasKey(d, key)
    THEN VDict([n \in 1..Len(d.entries) |->
                  IF d.entries[n].key = key THEN Entry(key, val) ELSE d.entries[n]])
    ELSE VDict(Append(d.entries, Entry(key, val)))

\* whether "for e in v" can start: iterating none, bool or int is a TypeError
Iterable(v) == v.k \in {"str", "list", "dict"}

\* the elements "for e in v" visits; a dict yields its keys, and the
\* characters of a str are not told apart (each is a one-character str)
IterItems(v) ==
    CASE v.k = "list" -> v.items
      [] v.k = "dict" -> [n \in 1..Len(v.entries) |-> VStr(v.entries[n].key)]
      [] v.k = "str"  -> IF v.s = "" THEN <<>> ELSE <<VStr("c")>>
      [] OTHER -> <<>>

----------------------------------------------------------------------------
(* merge_rule_data *)

\* 'scapolite' in d: a key test on a dict, a membership test on a list, a
\* substring test on a str (no other str of the model holds the word), and
\* a TypeError on anything else
CanTestIn(d) == d.k \in {"dict", "list", "str"}

ScapoliteIn(d) ==
    CASE d.k = "dict" -> HasKey(d, "scapolite")
      [] d.k = "list" -> \E n \in 1..Len(d.items) : d.items[n] = VStr("scapolite")
      [] d.k = "str"  -> d.s = "scapolite"
      [] OTHER -> FALSE

\* the loop of lines 40-42 over the items of the document, on the copy
RECURSIVE MergeLoop(_, _)
MergeLoop(rule_data, items) ==
    IF items = <<>> THEN rule_data
    ELSE IF Head(items).key # "scapolite"
         THEN MergeLoop(DictSet(rule_data, Head(items).key, Head(items).val), Tail(items))
         ELSE MergeLoop(rule_data, Tail(items))

\* the same loop with the test of line 41 dropped and the copy winning
RECURSIVE MergeLoop_KeepBase(_, _)
MergeLoop_KeepBase(rule_data, items) ==
    IF items = <<>> THEN rule_data
    ELSE IF Head(items).key # "scapolite" /\ ~HasKey(rule_data, Head(items).key)
         THEN MergeLoop_KeepBase(DictSet(rule_data, Head(items).key, Head(items).val),
                                 Tail(items))
         ELSE MergeLoop_KeepBase(rule_data, Tail(items))

merge_rule_data_KeepBase(scapolite_data) ==
    IF ~CanTestIn(scapolite_data) THEN [raised |-> TRUE, val |-> VNone]
    ELSE IF ~ScapoliteIn(scapolite_data) THEN [raised |-> FALSE, val |-> scapolite_data]
    ELSE IF scapolite_data.k # "dict" THEN [raised |-> TRUE, val |-> VNone]
    ELSE LET base == Lookup(scapolite_data, "scapolite")
             others == SelectSeq(scapolite_data.entries, LAMBDA e : e.key # "scapolite")
         IN  CASE base.k = "dict" ->
                     [raised |-> FALSE,
                      val |-> MergeLoop_KeepBase(base, scapolite_data.entries)]
               [] base.k = "list" ->
                     IF others = <<>> THEN [raised |-> FALSE, val |-> base]
                     ELSE [raised |-> TRUE, val |-> VNone]
               [] OTHER -> [raised |-> TRUE, val |-> VNone]

\* merge_rule_data(scapolite_data): the value returned, or raised = TRUE
\* when the call ends in an exception
merge_rule_data(scapolite_data) ==
    IF ~CanTestIn(scapolite_data) THEN [raised |-> TRUE, val |-> VNone]
    ELSE IF ~ScapoliteIn(scapolite_data) THEN [raised |-> FALSE, val |-> scapolite_data]
    \* .get of a list or a str: AttributeError
    ELSE IF scapolite_data.k # "dict" THEN [raised |-> TRUE, val |-> VNone]
    ELSE LET base == Lookup(scapolite_data, "scapolite")
             others == SelectSeq(scapolite_data.entries, LAMBDA e : e.key # "scapolite")
         IN  CASE base.k = "dict" ->
                     [raised |-> FALSE, val |-> MergeLoop(base, scapolite_data.entries)]
               \* a list has copy(), and takes no assignment to a str index
               [] base.k = "list" ->
                     IF others = <<>> THEN [raised |-> FALSE, val |-> base]
                     ELSE [raised |-> TRUE, val |-> VNone]
               \* none, bool, int, str have no copy()
               [] OTHER -> [raised |-> TRUE, val |-> VNone]

----------------------------------------------------------------------------
(* convert_rule_to_ansible *)

WarnNoKey == "WARNING: No 'registry_key' found in automation; skipping this automation."
WarnNoValues == "WARNING: No 'values' found in automation; skipping this automation."
ErrNoTasks == "ERROR: No valid automation data found in file. No tasks were generated."

\* line 88
TypeTag(value) == IF IsInstanceInt(value) THEN "dword" ELSE "string"

\* the same task with the registry root left out of the path
MakeTask_NoRoot(registry_key, name, value) ==
    [name |-> "Set " \o name \o " to " \o PyStr(value),
     win_regedit |-> [path |-> PyStr(registry_key),
                      name |-> name,
                      data |-> value,
                      type |-> TypeTag(value)]]

\* lines 82-90: the task of one (name, value) item
MakeTask(registry_key, name, value) ==
    [name |-> "Set " \o name \o " to " \o PyStr(value),
     win_regedit |-> [path |-> "HKLM:\\" \o PyStr(registry_key),
                      name |-> name,
                      data |-> value,
                      type |-> TypeTag(value)]]

\* What a piece of the conversion did: the tasks it appended, the records
\* it logged, and whether it ended in an exception.
Outcome(raised, tasks, lg) == [raised |-> raised, tasks |-> tasks, log |-> lg]

\* the loop of line 81 left after its first item
AutomationTasks_FirstValueOnly(automation) ==
    IF automation.k # "dict" THEN Outcome(TRUE, <<>>, <<>>)
    ELSE LET registry_key == DictGet(automation, "registry_key", VNone)
             values == DictGet(automation, "values", VDict(<<>>))
         IN  IF ~Truthy(registry_key) THEN Outcome(FALSE, <<>>, <<WarnNoKey>>)
             ELSE IF ~Truthy(values) THEN Outcome(FALSE, <<>>, <<WarnNoValues>>)
             ELSE IF values.k # "dict" THEN Outcome(TRUE, <<>>, <<>>)
             ELSE Outcome(FALSE,
                          <<MakeTask(registry_key, values.entries[1].key,
                                     values.entries[1].val)>>,
                          <<>>)

\* one automation with an invalid entry ending the loop over the
\* automations' tasks in an exception instead of being skipped
AutomationTasks_Raise(automation) ==
    IF automation.k # "dict" THEN Outcome(TRUE, <<>>, <<>>)
    ELSE LET registry_key == DictGet(automation, "registry_key", VNone)
             values == DictGet(automation, "values", VDict(<<>>))
         IN  IF ~Truthy(registry_key) THEN Outcome(TRUE, <<>>, <<WarnNoKey>>)
             ELSE IF ~Truthy(values) THEN Outcome(TRUE, <<>>, <<WarnNoValues>>)
             ELSE IF values.k # "dict" THEN Outcome(TRUE, <<>>, <<>>)
             ELSE Outcome(FALSE,
                          [n \in 1..Len(values.entries) |->
                              MakeTask(registry_key, values.entries[n].key,
                                       values.entries[n].val)],
                          <<>>)

\* lines 69-92: the body of the loop over the automations
AutomationTasks(automation) ==
    \* .get of anything but a dict: AttributeError
    IF automation.k # "dict" THEN Outcome(TRUE, <<>>, <<>>)
    ELSE LET registry_key == DictGet(automation, "registry_key", VNone)
             values == DictGet(automation, "values", VDict(<<>>))
         IN  IF ~Truthy(registry_key) THEN Outcome(FALSE, <<>>, <<WarnNoKey>>)
             ELSE IF ~Truthy(values) THEN Outcome(FALSE, <<>>, <<WarnNoValues>>)
             \* .items() of anything but a dict: AttributeError
             ELSE IF values.k # "dict" THEN Outcome(TRUE, <<>>, <<>>)
             ELSE Outcome(FALSE,
                          [n \in 1..Len(values.entries) |->
                              MakeTask(registry_key, values.entries[n].key,
                                       values.entries[n].val)],
                          <<>>)

\* line 68: the loop over the automations, in order, ended by an exception
RECURSIVE AutomationsLoop(_)
AutomationsLoop(items) ==
    IF items = <<>> THEN Outcome(FALSE, <<>>, <<>>)
    ELSE LET first == AutomationTasks(Head(items))
         IN  IF first.raised THEN first
             ELSE LET rest == AutomationsLoop(Tail(items))
                  IN  Outcome(rest.raised, first.tasks \o rest.tasks,
                              first.log \o rest.log)

\* lines 65-68: the body of the loop over the implementations
ImplementationTasks(impl) ==
    IF impl.k # "dict" THEN Outcome(TRUE, <<>>, <<>>)
    ELSE LET automations == DictGet(impl, "automations", VList(<<>>))
         IN  IF ~Truthy(automations) THEN Outcome(FALSE, <<>>, <<>>)
             ELSE IF ~Iterable(automations) THEN Outcome(TRUE, <<>>, <<>>)
             ELSE AutomationsLoop(IterItems(automations))

\* line 64: the loop over the implementations
RECURSIVE ImplementationsLoop(_)
ImplementationsLoop(items) ==
    IF items = <<>> THEN Outcome(FALSE, <<>>, <<>>)
    ELSE LET first == ImplementationTasks(Head(items))
         IN  IF first.raised THEN first
             ELSE LET rest == ImplementationsLoop(Tail(items))
                  IN  Outcome(rest.raised, first.tasks \o rest.tasks,
                              first.log \o rest.log)

NoPlay == [hosts |-> "", gather_facts |-> FALSE, tasks |-> <<>>]

\* convert_rule_to_ansible(scapolite_data): the play returned and the
\* records logged, or raised = TRUE when the call ends in an exception
convert_rule_to_ansible(scapolite_data) ==
    LET merged == merge_rule_data(scapolite_data)
        rule_data == merged.val
        Raise(lg) == [raised |-> TRUE, play |-> NoPlay, log |-> lg]
    IN  IF merged.raised THEN Raise(<<>>)
        \* .get of a list or a str: AttributeError
        ELSE IF rule_data.k # "dict" THEN Raise(<<>>)
        ELSE LET implementations == DictGet(rule_data, "implementations", VList(<<>>))
             IN  IF ~Iterable(implementations) THEN Raise(<<>>)
                 ELSE LET loop == ImplementationsLoop(IterItems(implementations))
                      IN  IF loop.raised THEN Raise(loop.log)
                          ELSE [raised |-> FALSE,
                                play |-> [hosts |-> "windows",
                                          gather_facts |-> FALSE,
                                          tasks |-> loop.tasks],
                                log |-> IF loop.tasks = <<>>
                                        THEN Append(loop.log, ErrNoTasks)
                                        ELSE loop.log]

----------------------------------------------------------------------------
(* load_yaml_metadata *)

Dash == "-"
IsMarkerAt(content, n) ==
    /\ n >= 1
    /\ n + 2 <= Len(content)
    /\ content[n] = Dash /\ content[n + 1] = Dash /\ content[n + 2] = Dash

\* content.split('---'): the pieces between the occurrences of the marker,
\* found from the left without overlap; k pieces for k - 1 occurrences
RECURSIVE Split(_)
Split(content) ==
    IF \E n \in 1..Len(content) : IsMarkerAt(content, n)
    THEN LET first == CHOOSE n \in 1..Len(content) :
                          /\ IsMarkerAt(content, n)
                          /\ \A m \in 1..(n - 1) : ~IsMarkerAt(content, m)
         IN  <<SubSeq(content, 1, first - 1)>>
                 \o Split(SubSeq(content, first + 3, Len(content)))
    ELSE <<content>>

\* the same choice with the test of line 21 off by one
MetadataSegment_TwoParts(content) ==
    LET parts == Split(content)
    IN  IF Len(parts) >= 2 THEN parts[2] ELSE content

\* lines 20-25: the segment that is parsed
MetadataSegment(content) ==
    LET parts == Split(content)
    IN  IF Len(parts) >= 3 THEN parts[2] ELSE content

\* The blocks of YAML lines a text can hold, and what each parses to.
RuleA ==
    VDict(<<Entry("title", VStr("t")),
            Entry("implementations", VList(<<
                VDict(<<Entry("automations", VList(<<
                    VDict(<<Entry("registry_key", VStr("Foo\\Bar")),
                            Entry("values", VDict(<<Entry("Enabled", VInt(1)),
                                                    Entry("Mode", VStr("strict"))>>))>>)
                >>))>>)
            >>))>>)

RuleB ==
    VDict(<<Entry("scapolite", VDict(<<
                Entry("class", VStr("rule")),
                Entry("implementations", VList(<<
                    VDict(<<Entry("automations", VList(<<
                        VDict(<<Entry("values", VDict(<<Entry("Mode", VInt(2))>>))>>),
                        VDict(<<Entry("registry_key", VStr("Baz")),
                                Entry("values", VDict(<<Entry("On", VBool(TRUE))>>))>>)
                    >>))>>)
                >>))>>)),
            Entry("title", VStr("u"))>>)

Blocks == {"RULE_A", "RULE_B", "NO_IMPL", "BAD_IMPL", "SCALAR", "SEQ", "BROKEN"}

\* "BROKEN" is a block no YAML document can hold (an unclosed flow sequence,
\* which no other symbol closes).
Denote(block) ==
    CASE block = "RULE_A"   -> RuleA
      [] block = "RULE_B"   -> RuleB
      [] block = "NO_IMPL"  -> VDict(<<Entry("title", VStr("t"))>>)
      [] block = "BAD_IMPL" -> VDict(<<Entry("implementations", VInt(5))>>)
      [] block = "SCALAR"   -> VStr("hello")
      [] block = "SEQ"      -> VList(<<VStr("a"), VStr("b")>>)
      [] OTHER -> VNone

\* the characters of a text of "-" and "x", as a str
RECURSIVE Join(_)
Join(chars) == IF chars = <<>> THEN "" ELSE Head(chars) \o Join(Tail(chars))

\* yaml.safe_load(metadata): ok = FALSE when the parser raises.
\*   - a text with the broken block is malformed;
\*   - the empty text, and a lone document-start marker, hold no document: None;
\*   - one block, after an optional document-start marker, is that block's value;
\*   - a lone dash is a sequence of one empty entry;
\*   - any other text of dashes and ordinary characters is one plain scalar;
\*   - anything else mixes blocks with markers or characters, which is a
\*     second document or a misplaced indicator: the parser raises.
Marker == <<Dash, Dash, Dash>>
SafeLoad(metadata) ==
    IF \E n \in 1..Len(metadata) : metadata[n] = "BROKEN"
    THEN [ok |-> FALSE, val |-> VNone]
    ELSE IF metadata = <<>> \/ metadata = Marker
    THEN [ok |-> TRUE, val |-> VNone]
    ELSE IF Len(metadata) = 1 /\ metadata[1] \in Blocks
    THEN [ok |-> TRUE, val |-> Denote(metadata[1])]
    ELSE IF Len(metadata) = 4 /\ SubSeq(metadata, 1, 3) = Marker /\ metadata[4] \in Blocks
    THEN [ok |-> TRUE, val |-> Denote(metadata[4])]
    ELSE IF metadata = <<Dash>>
    THEN [ok |-> TRUE, val |-> VList(<<VNone>>)]
    ELSE IF \A n \in 1..Len(metadata) : metadata[n] \notin Blocks
    THEN [ok |-> TRUE, val |-> VStr(Join(metadata))]
    ELSE [ok |-> FALSE, val |-> VNone]

ErrParse == "ERROR: Error parsing YAML metadata"

ReadableFile(content) == [yaml |-> TRUE, readable |-> TRUE, content |-> content]

\* the same parse with the handler of lines 29-31 missing: the parser's
\* exception leaves the function
ParseMetadata_NoCatch(content) ==
    LET parsed == SafeLoad(MetadataSegment(content))
    IN  IF parsed.ok THEN [raised |-> FALSE, data |-> parsed.val, log |-> <<>>]
        ELSE [raised |-> TRUE, data |-> VNone, log |-> <<>>]

\* lines 17-31: the value returned for the text read, and the records logged
ParseMetadata(content) ==
    LET parsed == SafeLoad(MetadataSegment(content))
    IN  IF parsed.ok THEN [raised |-> FALSE, data |-> parsed.val, log |-> <<>>]
        ELSE [raised |-> FALSE, data |-> VNone, log |-> <<ErrParse>>]

\* load_yaml_metadata(file_path): open() and read() of lines 15-16 stand in
\* no try block, so a file that cannot be read ends the call in an exception
load_yaml_metadata(file) ==
    IF ~file.readable THEN [raised |-> TRUE, data |-> VNone, log |-> <<>>]
    ELSE ParseMetadata(file.content)

----------------------------------------------------------------------------
(* The mapper on its own: convert_rule_to_ansible applied to one metadata  *)
(* mapping drawn from bounded families of rules.                           *)

MaxAutos == 3   \* automation entries of a generated rule, over all implementations
MaxImpls == 2   \* implementations of a generated rule

Values1 == VDict(<<Entry("Enabled", VInt(1)), Entry("Mode", VStr("strict"))>>)
Values2 == VDict(<<Entry("Mode", VBool(TRUE)), Entry("Enabled", VNone)>>)
Values3 == VDict(<<Entry("Enabled", VInt(0))>>)

\* the automation entries a generated rule is built from
AutoEntries ==
    << VDict(<<Entry("registry_key", VStr("Foo\\Bar")), Entry("values", Values1)>>),
       VDict(<<Entry("values", Values2), Entry("registry_key", VStr("Baz"))>>),
       VDict(<<Entry("registry_key", VStr("Qux")), Entry("values", Values3)>>),
       VDict(<<Entry("values", Values1)>>),
       VDict(<<Entry("registry_key", VStr("")), Entry("values", Values3)>>),
       VDict(<<Entry("registry_key", VStr("Baz"))>>),
       VDict(<<Entry("registry_key", VStr("Baz")), Entry("values", VDict(<<>>))>>) >>

\* the rule whose implementations hold the entries picked by flat, cut into
\* implementations at the bounds (implementation j holds the entries after
\* bounds[j - 1] up to bounds[j])
BuildRule(flat, bounds) ==
    VDict(<<Entry("title", VStr("t")),
            Entry("implementations",
                  VList([j \in 1..Len(bounds) |->
                      VDict(<<Entry("automations",
                                    VList([n \in 1..(bounds[j] - (IF j = 1 THEN 0 ELSE bounds[j - 1])) |->
                                              AutoEntries[flat[(IF j = 1 THEN 0 ELSE bounds[j - 1]) + n]]]))>>)]))>>)

Impl(automations) == VDict(<<Entry("automations", automations)>>)
Rule(implementations) == VDict(<<Entry("implementations", implementations)>>)

\* rules and documents of other shapes
ExtraInputs ==
    << VDict(<<>>),
       VDict(<<Entry("title", VStr("t"))>>),
       Rule(VInt(5)),
       Rule(VNone),
       Rule(VStr("abc")),
       Rule(VStr("")),
       Rule(VDict(<<>>)),
       Rule(VDict(<<Entry("automations", VList(<<AutoEntries[1]>>))>>)),
       Rule(VBool(FALSE)),
       Rule(VList(<<VStr("oops")>>)),
       Rule(VList(<<VDict(<<>>), Impl(VNone), Impl(VList(<<AutoEntries[1]>>))>>)),
       Rule(VList(<<Impl(VInt(7))>>)),
       Rule(VList(<<Impl(VList(<<VStr("oops"), AutoEntries[1]>>))>>)),
       Rule(VList(<<Impl(VList(<<AutoEntries[4],
                                 VDict(<<Entry("registry_key", VStr("K")),
                                         Entry("values", VList(<<VInt(1)>>))>>)>>))>>)),
       Rule(VList(<<Impl(VList(<<VDict(<<Entry("registry_key", VInt(7)),
                                         Entry("values", Values3)>>)>>))>>)),
       RuleA,
       RuleB,
       VDict(<<Entry("implementations", VList(<<>>)),
               Entry("scapolite", Rule(VList(<<Impl(VList(<<AutoEntries[1]>>))>>)))>>),
       VDict(<<Entry("scapolite", VStr("rule")), Entry("title", VStr("t"))>>),
       VDict(<<Entry("scapolite", VList(<<>>))>>),
       VDict(<<Entry("scapolite", VList(<<>>)), Entry("title", VStr("t"))>>),
       VDict(<<Entry("scapolite", VNone)>>),
       VStr("hello"),
       VStr("scapolite"),
       VList(<<VStr("scapolite")>>),
       VList(<<VStr("a")>>),
       VInt(3) >>

\* the key orders of the dicts the merge is tried on
KeyOrders == << <<>>, <<"a">>, <<"b">>, <<"a", "b">>, <<"b", "a">>, <<"scapolite", "a">> >>

\* {scapolite: base, siblings...}: base has the keys of order bk with the
\* values bv, the siblings the keys of order sk with the values sv, and the
\* "scapolite" item stands after the first pos siblings; pos = -1 leaves the
\* "scapolite" item out
MergeInput(bk, bv, sk, sv, pos) ==
    LET base == VDict([n \in 1..Len(bk) |-> Entry(bk[n], VInt(bv[n]))])
        sibs == [n \in 1..Len(sk) |-> Entry(sk[n], VInt(sv[n]))]
    IN  IF pos < 0 THEN VDict(sibs)
        ELSE VDict(SubSeq(sibs, 1, pos) \o <<Entry("scapolite", base)>>
                       \o SubSeq(sibs, pos + 1, Len(sibs)))

NotConverted ==
    [done |-> FALSE,
     merged |-> [raised |-> FALSE, val |-> VNone],
     conv |-> [raised |-> FALSE, play |-> NoPlay, log |-> <<>>]]

DriverIdle ==
    /\ files = <<>> /\ idx = 0 /\ plays = <<>> /\ pc = "idle"
    /\ data = VNone /\ converted = <<>> /\ log = <<>>
    /\ output = [written |-> FALSE, docs |-> <<>>]

NotLoaded == [done |-> FALSE, raised |-> FALSE, data |-> VNone, log |-> <<>>]

ExtractIdle == text = <<>> /\ segment = <<>> /\ loaded = NotLoaded

MapIdle == meta = VNone /\ result = NotConverted

InitMap ==
    /\ DriverIdle
    /\ ExtractIdle
    /\ result = NotConverted
    /\ \/ \E m \in 0..MaxAutos : \E flat \in [1..m -> 1..Len(AutoEntries)] :
          \E n \in 0..MaxImpls : \E bounds \in [1..n -> 0..m] :
              /\ n = 0 => m = 0
              /\ n > 0 => bounds[n] = m
              /\ \A j \in 1..(n - 1) : bounds[j] <= bounds[j + 1]
              /\ meta = BuildRule(flat, bounds)
       \/ \E n \in 1..Len(ExtraInputs) : meta = ExtraInputs[n]
       \/ \E b \in 1..Len(KeyOrders) : \E s \in 1..Len(KeyOrders) :
          \E bv \in [1..Len(KeyOrders[b]) -> 1..2] :
          \E sv \in [1..Len(KeyOrders[s]) -> 3..4] :
          \E pos \in (-1)..Len(KeyOrders[s]) :
              /\ KeyOrders[s] # <<"scapolite", "a">>
              /\ meta = MergeInput(KeyOrders[b], bv, KeyOrders[s], sv, pos)

\* the mapper is applied to the mapping: the merge, then the whole conversion
Convert ==
    /\ ~result.done
    /\ result' = [done |-> TRUE,
                  merged |-> merge_rule_data(meta),
                  conv |-> convert_rule_to_ansible(meta)]
    /\ UNCHANGED <<files, idx, plays, pc, data, converted, log, output,
                   text, segment, loaded, meta>>

NextMap == Convert

SpecMap == InitMap /\ [][NextMap]_vars

----------------------------------------------------------------------------
(* Properties of the mapper, under SpecMap *)

Keys(d) == {d.entries[n].key : n \in 1..Len(d.entries)}
Tasks == result.conv.play.tasks
Returned == result.done /\ ~result.conv.raised

\* C2: every action's type tag is "dword" if its value is an integer and
\* "string" for a value of any other kind.
C2_TypeTagByKind ==
    Returned =>
        \A n \in 1..Len(Tasks) :
            Tasks[n].win_regedit.type =
                IF Tasks[n].win_regedit.data.k = "int" THEN "dword" ELSE "string"

\* C7: the merge returns a mapping without a "scapolite" key unchanged; with
\* a "scapolite" key holding a mapping b the result has exactly the keys of
\* b and the other keys of m, each other key of m with m's value and each
\* remaining key with b's value.
C7_Merge ==
    (result.done /\ meta.k = "dict") =>
        /\ ~HasKey(meta, "scapolite") =>
              /\ ~result.merged.raised
              /\ result.merged.val = meta
        /\ (HasKey(meta, "scapolite") /\ Lookup(meta, "scapolite").k = "dict") =>
              LET b == Lookup(meta, "scapolite")
                  r == result.merged.val
                  siblings == Keys(meta) \ {"scapolite"}
              IN  /\ ~result.merged.raised
                  /\ r.k = "dict"
                  /\ Keys(r) = Keys(b) \cup siblings
                  /\ Len(r.entries) = Cardinality(Keys(r))
                  /\ \A key \in Keys(r) :
                        Lookup(r, key) = IF key \in siblings THEN Lookup(meta, key)
                                         ELSE Lookup(b, key)

\* the example of the merge precedence: {scapolite: {a:1, b:2}, b:3}
\* has been merged into {a:1, b:3}
C7_Witness ==
    /\ result.done
    /\ meta = VDict(<<Entry("scapolite", VDict(<<Entry("a", VInt(1)), Entry("b", VInt(2))>>)),
                      Entry("b", VInt(3))>>)
    /\ result.merged.val = VDict(<<Entry("a", VInt(1)), Entry("b", VInt(3))>>)

\* The rule record's automation entries by position, read off the record.
RuleRecord == result.merged.val
ImplsOf(rule) == IterItems(DictGet(rule, "implementations", VList(<<>>)))
AutosOf(impl) ==
    IF impl.k = "dict" THEN IterItems(DictGet(impl, "automations", VList(<<>>))) ELSE <<>>
KeyOf(a) == DictGet(a, "registry_key", VNone)
ValuesOf(a) == DictGet(a, "values", VDict(<<>>))
ValidEntry(a) == a.k = "dict" /\ Truthy(KeyOf(a)) /\ Truthy(ValuesOf(a))
InvalidEntry(a) == a.k = "dict" /\ ~(Truthy(KeyOf(a)) /\ Truthy(ValuesOf(a)))

\* <<i, j, n>>: value n of automation entry j of implementation i, the
\* entry being valid
Pairs(rule) ==
    UNION { UNION { { <<i, j, n>> : n \in 1..Len(ValuesOf(AutosOf(ImplsOf(rule)[i])[j]).entries) } :
                    j \in { jj \in 1..Len(AutosOf(ImplsOf(rule)[i])) :
                               ValidEntry(AutosOf(ImplsOf(rule)[i])[jj]) } } :
            i \in 1..Len(ImplsOf(rule)) }

Before(u, t) ==
    \/ u[1] < t[1]
    \/ u[1] = t[1] /\ u[2] < t[2]
    \/ u[1] = t[1] /\ u[2] = t[2] /\ u[3] < t[3]

Rank(rule, t) == Cardinality({u \in Pairs(rule) : Before(u, t)}) + 1

\* C8: the returned play's actions are exactly one per (valid automation
\* entry, value name) pair, in implementation, automation and value order,
\* each with the label "Set {name} to {value}", the path "HKLM:\" followed
\* by the registry path, the value name and the value.
C8_OneActionPerPair ==
    Returned =>
        /\ Len(Tasks) = Cardinality(Pairs(RuleRecord))
        /\ \A t \in Pairs(RuleRecord) :
              LET a == AutosOf(ImplsOf(RuleRecord)[t[1]])[t[2]]
                  item == ValuesOf(a).entries[t[3]]
                  task == Tasks[Rank(RuleRecord, t)]
              IN  /\ task.name = "Set " \o item.key \o " to " \o PyStr(item.val)
                  /\ task.win_regedit.path = "HKLM:\\" \o PyStr(KeyOf(a))
                  /\ task.win_regedit.name = item.key
                  /\ task.win_regedit.data = item.val

\* a play returned for two implementations, an invalid entry among the
\* valid ones, and at least three actions
C8_Witness ==
    /\ Returned
    /\ Len(ImplsOf(RuleRecord)) = 2
    /\ \A i \in 1..2 : \E j \in 1..Len(AutosOf(ImplsOf(RuleRecord)[i])) :
           ValidEntry(AutosOf(ImplsOf(RuleRecord)[i])[j])
    /\ \E j \in 1..Len(AutosOf(ImplsOf(RuleRecord)[1])) :
           InvalidEntry(AutosOf(ImplsOf(RuleRecord)[1])[j])
    /\ Len(Tasks) >= 3
    /\ Tasks[1].name = "Set Enabled to 1"
    /\ Tasks[1].win_regedit.path = "HKLM:\\Foo\\Bar"

\* A rule all of whose implementations are mappings with a sequence of
\* automations, every automation a mapping, its values a mapping if present.
WellFormedRule(rule) ==
    /\ rule.k = "dict"
    /\ ~HasKey(rule, "scapolite")
    /\ HasKey(rule, "implementations")
    /\ Lookup(rule, "implementations").k = "list"
    /\ \A i \in 1..Len(ImplsOf(rule)) :
          LET impl == ImplsOf(rule)[i]
          IN  /\ impl.k = "dict"
              /\ HasKey(impl, "automations")
              /\ Lookup(impl, "automations").k = "list"
              /\ \A j \in 1..Len(AutosOf(impl)) :
                    /\ AutosOf(impl)[j].k = "dict"
                    /\ ValuesOf(AutosOf(impl)[j]).k = "dict"

InvalidCount(rule) ==
    Cardinality({ij \in UNION {{<<i, j>> : j \in 1..Len(AutosOf(ImplsOf(rule)[i]))} :
                                   i \in 1..Len(ImplsOf(rule))} :
                    InvalidEntry(AutosOf(ImplsOf(rule)[ij[1]])[ij[2]])})

\* the rule with its invalid automation entries taken out
WithoutInvalid(rule) ==
    DictSet(rule, "implementations",
            VList([i \in 1..Len(ImplsOf(rule)) |->
                      DictSet(ImplsOf(rule)[i], "automations",
                              VList(SelectSeq(AutosOf(ImplsOf(rule)[i]),
                                              LAMBDA a : ~InvalidEntry(a))))]))

Warnings(lg) == {n \in 1..Len(lg) : lg[n] \in {WarnNoKey, WarnNoValues}}

\* C9: an automation entry whose registry_key or values is absent or empty
\* gives no action and one warning and no exception, and the entries after
\* it still give their actions: the play is the one of the rule without
\* its invalid entries.
C9_InvalidEntrySkipped ==
    (result.done /\ WellFormedRule(meta)) =>
        /\ ~result.conv.raised
        /\ Cardinality(Warnings(result.conv.log)) = InvalidCount(meta)
        /\ Tasks = convert_rule_to_ansible(WithoutInvalid(meta)).play.tasks

\* an invalid entry followed, in the same implementation, by a valid one
\* whose actions were appended
C9_Witness ==
    /\ result.done
    /\ WellFormedRule(meta)
    /\ Len(ImplsOf(meta)) >= 1
    /\ Len(AutosOf(ImplsOf(meta)[1])) >= 2
    /\ InvalidEntry(AutosOf(ImplsOf(meta)[1])[1])
    /\ ValidEntry(AutosOf(ImplsOf(meta)[1])[2])
    /\ Len(Tasks) >= 1
    /\ WarnNoKey \in {result.conv.log[n] : n \in 1..Len(result.conv.log)}

\* C10: with "implementations" absent, or present but not a sequence, the
\* mapper returns the play for "windows" with fact gathering off and no
\* action, logs the no-valid-automation-data error and raises nothing.
C10_NoImplementations ==
    (/\ result.done
     /\ meta.k = "dict"
     /\ ~HasKey(meta, "scapolite")
     /\ \/ ~HasKey(meta, "implementations")
        \/ Lookup(meta, "implementations").k # "list") =>
        /\ ~result.conv.raised
        /\ result.conv.play = [hosts |-> "windows", gather_facts |-> FALSE, tasks |-> <<>>]
        /\ ErrNoTasks \in {result.conv.log[n] : n \in 1..Len(result.conv.log)}

----------------------------------------------------------------------------
(* The extractor on its own: load_yaml_metadata applied to one readable    *)
(* file whose text is any sequence of the symbols below.                   *)

MaxTextLen == 8

Alphabet == {Dash, "x", "RULE_A"}

InitExtract ==
    /\ DriverIdle
    /\ MapIdle
    /\ \E m \in 0..MaxTextLen : text \in [1..m -> Alphabet]
    /\ segment = <<>>
    /\ loaded = NotLoaded

Load ==
    /\ ~loaded.done
    /\ segment' = MetadataSegment(text)
    /\ loaded' = LET r == load_yaml_metadata(ReadableFile(text))
                 IN  [done |-> TRUE, raised |-> r.raised, data |-> r.data, log |-> r.log]
    /\ UNCHANGED <<files, idx, plays, pc, data, converted, log, output,
                   text, meta, result>>

NextExtract == Load

SpecExtract == InitExtract /\ [][NextExtract]_vars

\* the places of the first occurrence of the marker and of the first
\* occurrence after it (0 when there is none)
FirstMarker(content, from) ==
    IF \E n \in from..Len(content) : IsMarkerAt(content, n)
    THEN CHOOSE n \in from..Len(content) :
             IsMarkerAt(content, n) /\ \A m \in from..(n - 1) : ~IsMarkerAt(content, m)
    ELSE 0

\* C6: the segment parsed is the text strictly between the first and the
\* second occurrence of the marker when the marker occurs at least twice,
\* and the whole text otherwise.
C6_SegmentBetweenMarkers ==
    loaded.done =>
        LET first == FirstMarker(text, 1)
            second == IF first = 0 THEN 0 ELSE FirstMarker(text, first + 3)
        IN  segment = IF second # 0 THEN SubSeq(text, first + 3, second - 1) ELSE text

\* a text with two markers and something between them has been loaded, and
\* the value is the one of the block between them
C6_Witness ==
    /\ loaded.done
    /\ text = <<"x", Dash, Dash, Dash, "RULE_A", Dash, Dash>> \o <<Dash>>
    /\ segment = <<"RULE_A">>
    /\ loaded.data = RuleA

----------------------------------------------------------------------------
(* convert_directory: the batch driver, one step per file of the listing   *)

MaxFiles == 3   \* files of the input directory

FrontMatter(block) == Marker \o <<block>> \o Marker \o <<"x">>
YamlFile(content) == [yaml |-> TRUE, readable |-> TRUE, content |-> content]

\* the files a listing is made of; yaml tells whether the name ends with
\* .yml or .yaml, readable whether open() and read() succeed
FileKinds ==
    << YamlFile(FrontMatter("RULE_A")),
       YamlFile(<<"RULE_B">>),
       YamlFile(Marker \o <<"RULE_A">>),
       YamlFile(FrontMatter("NO_IMPL")),
       YamlFile(FrontMatter("BAD_IMPL")),
       YamlFile(FrontMatter("BROKEN")),
       YamlFile(<<"SCALAR">>),
       YamlFile(FrontMatter("SEQ")),
       YamlFile(<<>>),
       [yaml |-> TRUE, readable |-> FALSE, content |-> <<>>],
       [yaml |-> FALSE, readable |-> TRUE, content |-> FrontMatter("RULE_A")] >>

ErrNoInputDir == "ERROR: Input directory does not exist."
InfoProcessing == "INFO: Processing"
ErrSkipping == "ERROR: Skipping file due to YAML parse error."
WarnNoTasks == "WARNING: No tasks generated."
ErrConverting == "ERROR: Error converting"
InfoCreatedDir == "INFO: Created directory."
ErrCreatingDir == "ERROR: Error creating directory"
InfoSaved == "INFO: Playbook saved successfully"
ErrWriting == "ERROR: Error writing"
WarnNoPlays == "WARNING: No valid plays generated."
InfoConverted == "INFO: Converted documents"

NotWritten == [written |-> FALSE, docs |-> <<>>]

Init ==
    /\ ExtractIdle
    /\ MapIdle
    /\ \E m \in 0..MaxFiles : \E kinds \in [1..m -> 1..Len(FileKinds)] :
           files = [n \in 1..m |-> FileKinds[kinds[n]]]
    /\ idx = 1
    /\ plays = <<>>
    /\ pc = "start"
    /\ data = VNone
    /\ converted = <<>>
    /\ log = <<>>
    /\ output = NotWritten

\* lines 103-106: the input directory may not exist
Start ==
    /\ pc = "start"
    /\ \/ pc' = "loop" /\ log' = log
       \/ pc' = "done" /\ log' = Append(log, ErrNoInputDir)
    /\ UNCHANGED <<files, idx, plays, data, converted, output,
                   text, segment, loaded, meta, result>>

\* the test of line 119 always passing
KeepPlay_Always(play) == TRUE

\* line 119: whether the play is appended to the results
KeepPlay(play) == play.tasks # <<>>

\* lines 108-124: one turn of the loop over the listing
ProcessFile ==
    /\ pc = "loop"
    /\ idx <= Len(files)
    /\ LET file == files[idx]
           got == load_yaml_metadata(file)
           conv == convert_rule_to_ansible(got.data)
       IN  IF ~file.yaml
           THEN /\ idx' = idx + 1
                /\ UNCHANGED <<plays, pc, data, converted, log>>
           ELSE IF got.raised
           \* line 112 stands outside the try block of line 117
           THEN /\ pc' = "raised"
                /\ log' = Append(log, InfoProcessing) \o got.log
                /\ UNCHANGED <<idx, plays, data, converted>>
           ELSE IF got.data = VNone
           THEN /\ idx' = idx + 1
                /\ data' = got.data
                /\ log' = Append(log, InfoProcessing) \o got.log \o <<ErrSkipping>>
                /\ UNCHANGED <<plays, pc, converted>>
           ELSE /\ idx' = idx + 1
                /\ data' = got.data
                /\ converted' = Append(converted, got.data)
                /\ plays' = IF ~conv.raised /\ KeepPlay(conv.play)
                            THEN Append(plays, conv.play) ELSE plays
                /\ log' = Append(log, InfoProcessing) \o got.log \o conv.log
                            \o (IF conv.raised THEN <<ErrConverting>>
                                ELSE IF KeepPlay(conv.play) THEN <<>>
                                ELSE <<WarnNoTasks>>)
                /\ pc' = pc
    /\ UNCHANGED <<files, output, text, segment, loaded, meta, result>>

\* the listing is exhausted
EndLoop ==
    /\ pc = "loop"
    /\ idx > Len(files)
    /\ pc' = "write"
    /\ UNCHANGED <<files, idx, plays, data, converted, log, output,
                   text, segment, loaded, meta, result>>

\* lines 126-145: the output directory, then the dump of the plays
WriteOutput ==
    /\ pc = "write"
    /\ pc' = "done"
    /\ \/ \* the output directory is missing and cannot be made: return
          /\ log' = Append(log, ErrCreatingDir)
          /\ output' = output
       \/ \E made \in BOOLEAN :
          LET lg == IF made THEN Append(log, InfoCreatedDir) ELSE log
          IN  \/ /\ plays # <<>>
                 /\ output' = [written |-> TRUE, docs |-> plays]
                 /\ log' = lg \o <<InfoSaved, InfoConverted>>
              \/ /\ plays # <<>>
                 /\ output' = output
                 /\ log' = lg \o <<ErrWriting, InfoConverted>>
              \/ /\ plays = <<>>
                 /\ output' = output
                 /\ log' = lg \o <<WarnNoPlays, InfoConverted>>
    /\ UNCHANGED <<files, idx, plays, data, converted,
                   text, segment, loaded, meta, result>>

Next == Start \/ ProcessFile \/ EndLoop \/ WriteOutput

Spec == Init /\ [][Next]_vars

----------------------------------------------------------------------------
(* Properties of the batch driver, under Spec *)

\* the blocks of a file's text
HasBlock(file, block) == \E n \in 1..Len(file.content) : file.content[n] = block

\* C1: every play in the collected results, and every play dumped to the
\* output, has at least one action.
C1_NoEmptyPlayCollected ==
    /\ \A n \in 1..Len(plays) : Len(plays[n].tasks) >= 1
    /\ \A n \in 1..Len(output.docs) : Len(output.docs[n].tasks) >= 1

\* the batch is done and its output written, a play was collected, and a
\* document whose play is empty was processed
C1_Witness ==
    /\ pc = "done"
    /\ output.written
    /\ Len(output.docs) >= 1
    /\ \E n \in 1..Len(files) : HasBlock(files[n], "NO_IMPL")

\* C3: what load_yaml_metadata returns is a mapping or None, never a bare
\* scalar or a sequence, so the mapper is only ever called on a mapping.
C3_MappingOrNone ==
    /\ data.k \in {"dict", "none"}
    /\ \A n \in 1..Len(converted) : converted[n].k = "dict"

\* C4: an input document that cannot be read is logged and skipped; no I/O
\* error leaves convert_directory as an uncaught exception.
C4_ReadErrorNotFatal == pc # "raised"

\* the document's metadata segment does not parse
ParseFails(file) ==
    file.yaml /\ file.readable /\ ~SafeLoad(MetadataSegment(file.content)).ok

\* the plays a batch of documents gives, document by document
PlaysOfDocument(file) ==
    IF ~(file.yaml /\ file.readable) THEN <<>>
    ELSE LET parsed == SafeLoad(MetadataSegment(file.content))
         IN  IF ~parsed.ok \/ parsed.val.k = "none" THEN <<>>
             ELSE LET conv == convert_rule_to_ansible(parsed.val)
                  IN  IF conv.raised \/ conv.play.tasks = <<>> THEN <<>>
                      ELSE <<conv.play>>

RECURSIVE PlaysOfBatch(_)
PlaysOfBatch(batch) ==
    IF batch = <<>> THEN <<>>
    ELSE PlaysOfDocument(Head(batch)) \o PlaysOfBatch(Tail(batch))

\* the documents the loop has gone through
Processed == SubSeq(files, 1, idx - 1)

\* C5: when a document's metadata does not parse, load_yaml_metadata
\* returns None and raises nothing, the driver skips the document and goes
\* on: the plays collected are those of the batch without the documents
\* that do not parse.
C5_ParseFailureSkipped ==
    /\ (pc = "raised") => ~ParseFails(files[idx])
    /\ (idx > 1 /\ idx <= Len(files) + 1 /\ ParseFails(files[idx - 1])) =>
           data = VNone
    /\ plays = PlaysOfBatch(SelectSeq(Processed, LAMBDA f : ~ParseFails(f)))

\* a batch is done in which a document that does not parse stood before
\* one whose play was collected
C5_Witness ==
    /\ pc = "done"
    /\ \E n \in 1..Len(files) : \E m \in (n + 1)..Len(files) :
           /\ ParseFails(files[n])
           /\ PlaysOfDocument(files[m]) # <<>>
    /\ Len(plays) >= 1
    /\ ErrParse \in {log[n] : n \in 1..Len(log)}

====
